---- MODULE Spec2Model ----
(***************************************************************************)
(* Resource binding (bind.go) and in-band registration (ibr2/ibr2.go) of   *)
(* the xmpp package, as state machines over XML token streams.             *)
(*                                                                         *)
(* A stream is a sequence of tokens.  A token is a record                  *)
(*   [t, space, local, id, type, to, from, data]                           *)
(* with t one of "start", "end", "chars".  Character data is a sequence of *)
(* string pieces, so that a JID's text form (jid.JID.String) and its       *)
(* parsing are two different functions.                                    *)
(***************************************************************************)
EXTENDS Integers, Sequences, FiniteSets, TLC

VARIABLES
    scenario,   \* who the peer is: "client" / "server" = only that side is
                \* this code, the peer is arbitrary; "e2e" = both sides
    server,     \* bind(server): "nil" or "custom" allocator
    c2s,        \* tokens written towards the server and not yet read
    s2c,        \* tokens written towards the client and not yet read
    c2sClosed,  \* the server's input has ended (EOF after the tokens)
    s2cClosed,  \* the client's input has ended
    peerSent,   \* number of elements the arbitrary peer has sent
    cpc,        \* client Negotiate: position in the function
    origin,     \* client session.origin
    origin0,    \* session.origin when Negotiate was called
    reqID,      \* client reqID
    cstart,     \* client: start element read at line 195
    resp,       \* client: decoded response bindIQ
    cmask,      \* client: returned mask
    cerr,       \* client: returned err
    cret,       \* client: line of the return statement taken, 0 before
    cin,        \* client: the tokens Negotiate has consumed
    cwrites,    \* client: elements handed to req.WriteXML
    creads,     \* client: number of d.Token calls for a top-level token
    spc,        \* server Negotiate: position in the function
    sstart,     \* server: start element read at line 120
    resReq,     \* server: decoded request bindIQ
    iqid,       \* server: iqid
    sj,         \* server: j
    salloc,     \* server: err after allocation (line 141)
    smask,      \* server: returned mask
    serr,       \* server: returned err
    srw,        \* server: returned rw
    sret,       \* server: line of the return statement taken, 0 before
    sorigin,    \* server session.origin, the server's own address
    sreads,     \* server: number of d.Token calls for a top-level token
    sin,        \* server: the tokens Negotiate has consumed
    swrites,    \* server: bindIQ values handed to resp.WriteXML
    swire,      \* server: token sequences produced by resp.WriteXML
    feature,    \* ibr2: "register" or "recovery", "" when not in use
    irole,      \* ibr2: "offer" (List is called) or "parse" (Parse is called)
    challenges, \* ibr2: the Type of each Challenge passed to Register/Recovery
    peerList,   \* ibr2: the challenge types the peer advertises
    advert,     \* ibr2: the peer's feature element as tokens
    ipc,        \* ibr2: "idle", "advertised", "done"
    listOut,    \* ibr2: tokens List has encoded
    listErr,    \* ibr2: err returned by List
    supported,  \* ibr2: the supported value returned by Parse
    parseErr,   \* ibr2: err returned by Parse
    ineg,       \* ibr2 Negotiate: "none", "return" or "panic"
    imask,      \* ibr2 Negotiate: returned mask
    irw,        \* ibr2 Negotiate: returned rw
    ierr,       \* ibr2 Negotiate: returned err
    ifault,     \* ibr2 Negotiate: the value it panicked with
    state,      \* session.State(): the set of bits that are set
    state0,     \* session.State() when the connection started
    epc,        \* engine: "off", "select", "negotiating", "success",
                \* "failed", "fault"
    selected,   \* engine: the feature being negotiated
    rounds,     \* engine: bind Negotiate calls so far, 2 for two or more
    rn,         \* RandomID: n
    rentropy,   \* RandomID: the bytes rand.Read yields
    rpc,        \* RandomID: "idle", "done", "panic"
    rid         \* RandomID: the string returned

vars == <<scenario, server, c2s, s2c, c2sClosed, s2cClosed, peerSent,
          cpc, origin, origin0, reqID, cstart, resp, cmask, cerr, cret,
          cin, cwrites, creads,
          spc, sstart, resReq, iqid, sj, salloc, smask, serr, sret, sin,
          swrites, swire,
          feature, irole, challenges, peerList, advert, ipc, listOut,
          listErr, supported, parseErr,
          srw, sorigin, sreads,
          ineg, imask, irw, ierr, ifault,
          state, state0, epc, selected, rounds,
          rn, rentropy, rpc, rid>>

cvars == <<cpc, origin, origin0, reqID, cstart, resp, cmask, cerr, cret,
           cin, cwrites, creads>>
svars == <<spc, sstart, resReq, iqid, sj, salloc, smask, serr, sret,
           sin, swrites, swire, srw, sorigin, sreads>>
bvars == <<scenario, server, c2s, s2c, c2sClosed, s2cClosed, peerSent>>
ivars == <<feature, irole, challenges, peerList, advert, ipc, listOut,
           listErr, supported, parseErr>>
nvars == <<ineg, imask, irw, ierr, ifault>>
evars == <<state, state0, epc, selected, rounds>>
rvars == <<rn, rentropy, rpc, rid>>
xvars == <<nvars, evars, rvars>>

-----------------------------------------------------------------------------
(* Bounds *)

\* elements an arbitrary peer sends on one stream
MaxPeerElems == 1

\* length of a list of challenges
MaxLen == 3

\* the most Negotiate calls of bind that are counted
MaxRounds == 2

\* the longest identifier asked of RandomID
MaxIDLen == 4

-----------------------------------------------------------------------------
(* Names, addresses, errors *)

NSClient == "jabber:client"
NSBind == "urn:ietf:params:xml:ns:xmpp-bind"
NSOther == "jabber:server"

\* SessionState bits as a set of bit names; OR is union
Ready == {"Ready"}
NoMask == {}

\* *jid.JID; NilJID is the nil pointer
NilJID == [bare |-> "", res |-> ""]
JID(b, r) == [bare |-> b, res |-> r]
Bare == "user@example.com"

\* jid.JID.String: bare, or bare "/" resource
JIDString(j) ==
    IF j = NilJID THEN <<>>
    ELSE IF j.res = "" THEN <<j.bare>> ELSE <<j.bare, "/", j.res>>

\* jid parsing of character data (decoding into *jid.JID)
ValidJIDText(s) ==
    \/ Len(s) = 1 /\ s[1] \notin {"", "/"}
    \/ Len(s) = 3 /\ s[1] \notin {"", "/"} /\ s[2] = "/" /\ s[3] \notin {"", "/"}

ParseJID(s) ==
    IF Len(s) = 1 THEN JID(s[1], "") ELSE JID(s[1], s[3])

\* error values
NoErr == [kind |-> "nil", cond |-> ""]
StreamErr(c) == [kind |-> "stream", cond |-> c]
StanzaErr(c) == [kind |-> "stanza", cond |-> c]
OtherErr(c) == [kind |-> "other", cond |-> c]
BadFormat == StreamErr("bad-format")
UndefinedCondition == StreamErr("undefined-condition")
BadRequest == StanzaErr("bad-request")
IOErr == OtherErr("io")
DecodeErr == OtherErr("xml")

-----------------------------------------------------------------------------
(* Tokens *)

StartTok(sp, l, i, ty, to, from) ==
    [t |-> "start", space |-> sp, local |-> l, id |-> i, type |-> ty,
     to |-> to, from |-> from, data |-> <<>>]
EndTok ==
    [t |-> "end", space |-> "", local |-> "", id |-> "", type |-> "",
     to |-> <<>>, from |-> <<>>, data |-> <<>>]
CharData(d) ==
    [t |-> "chars", space |-> "", local |-> "", id |-> "", type |-> "",
     to |-> <<>>, from |-> <<>>, data |-> d]
NoTok ==
    [t |-> "none", space |-> "", local |-> "", id |-> "", type |-> "",
     to |-> <<>>, from |-> <<>>, data |-> <<>>]

\* xmlstream.Wrap: payload between a start element and its end
Wrap(payload, start) == <<start>> \o payload \o <<EndTok>>

\* number of start tokens in s whose end token is not in s, given `d` open
\* elements before s; an end token met with nothing open closes no element
\* of s
RECURSIVE OpenAfter(_, _)
OpenAfter(s, d) ==
    IF s = <<>> THEN d
    ELSE IF Head(s).t = "start" THEN OpenAfter(Tail(s), d + 1)
    ELSE IF Head(s).t = "end" /\ d > 0 THEN OpenAfter(Tail(s), d - 1)
    ELSE OpenAfter(Tail(s), d)

\* index in s of the end token of the element whose content starts at i;
\* 0 when s ends first
RECURSIVE MatchEnd(_, _, _)
MatchEnd(s, i, d) ==
    IF i > Len(s) THEN 0
    ELSE IF s[i].t = "start" THEN MatchEnd(s, i + 1, d + 1)
    ELSE IF s[i].t = "end" THEN (IF d = 0 THEN i ELSE MatchEnd(s, i + 1, d - 1))
    ELSE MatchEnd(s, i + 1, d)

\* character data directly inside the element whose content is s[i..e-1]
RECURSIVE TextOf(_, _, _)
TextOf(s, i, e) ==
    IF i >= e THEN <<>>
    ELSE IF s[i].t = "chars" THEN s[i].data \o TextOf(s, i + 1, e)
    ELSE IF s[i].t = "start" THEN TextOf(s, MatchEnd(s, i + 1, 0) + 1, e)
    ELSE TextOf(s, i + 1, e)

\* local name of the first child element in s[i..e-1], "" when there is none
RECURSIVE FirstChild(_, _, _)
FirstChild(s, i, e) ==
    IF i >= e THEN ""
    ELSE IF s[i].t = "start" THEN s[i].local
    ELSE FirstChild(s, i + 1, e)

-----------------------------------------------------------------------------
(* bindIQ and bindPayload: bind.go:46-86 *)

\* a string as character data: no pieces for the empty string
Text(str) == IF str = "" THEN <<>> ELSE <<str>>

\* the zero bindIQ{}: embedded stanza.IQ (id, type, to, from), Bind
\* (res, jid) and Err
ZeroIQ ==
    [id |-> "", type |-> "", to |-> NilJID, from |-> NilJID,
     res |-> <<>>, jid |-> NilJID, err |-> NoErr]

\* stanza.WrapIQ as bindIQ.TokenReader calls it: it is given the recipient,
\* the type and the payload, and nothing else of the IQ
WrapIQ(to, typ, payload) ==
    Wrap(payload, StartTok("", "iq", "", typ, JIDString(to), <<>>))

\* stanza.Error.TokenReader: an error element holding the condition element
ErrTokenReader(e) ==
    Wrap(Wrap(<<>>, StartTok("", e.cond, "", "", <<>>, <<>>)),
         StartTok("", "error", "", "", <<>>, <<>>))

\* bindPayload.TokenReader
bindPayloadTokenReader(bp) ==
    IF bp.jid # NilJID
    THEN Wrap(<<CharData(JIDString(bp.jid))>>,
              StartTok("", "jid", "", "", <<>>, <<>>))
    ELSE Wrap(<<CharData(bp.res)>>,
              StartTok("", "resource", "", "", <<>>, <<>>))

\* bindIQ.TokenReader
bindIQTokenReader(biq) ==
    IF biq.err # NoErr
    THEN WrapIQ(biq.to, biq.type, ErrTokenReader(biq.err))
    ELSE WrapIQ(biq.to, biq.type, bindPayloadTokenReader(biq))

\* what the peer's decoder sees of encoded tokens: an element without a
\* namespace is in the namespace of the element around it (ns is the stack
\* of those, innermost first), and empty character data yields no token
RECURSIVE Resolved(_, _)
Resolved(s, ns) ==
    IF s = <<>> THEN <<>>
    ELSE IF Head(s).t = "chars"
         THEN (IF Head(s).data = <<>> THEN <<>> ELSE <<Head(s)>>)
              \o Resolved(Tail(s), ns)
    ELSE IF Head(s).t = "start"
         THEN LET sp == IF Head(s).space = "" THEN Head(ns) ELSE Head(s).space
              IN <<[Head(s) EXCEPT !.space = sp]>>
                 \o Resolved(Tail(s), <<sp>> \o ns)
    ELSE <<Head(s)>>
         \o Resolved(Tail(s), IF Len(ns) > 1 THEN Tail(ns) ELSE ns)

\* tokens written to the session, inside the stream element
OnWire(s) == Resolved(s, <<NSClient>>)

\* bindIQ.WriteXML
WriteXML(biq) == OnWire(bindIQTokenReader(biq))

\* result of decoding: ok, the value, the number of tokens consumed after
\* the start token, and whether the input ended inside the element
Decoded(ok, v, n, eof) == [ok |-> ok, v |-> v, n |-> n, eof |-> eof]

\* decoding the content of a bind element into bindPayload (bind.go:65-68);
\* i is the index of the next token
RECURSIVE DecBind(_, _, _)
DecBind(s, i, v) ==
    IF i > Len(s) THEN Decoded(FALSE, v, Len(s), TRUE)
    ELSE IF s[i].t = "end" THEN Decoded(TRUE, v, i, FALSE)
    ELSE IF s[i].t = "chars" THEN DecBind(s, i + 1, v)
    ELSE LET e == MatchEnd(s, i + 1, 0) IN
         IF e = 0 THEN Decoded(FALSE, v, Len(s), TRUE)
         ELSE IF s[i].local = "resource"
              THEN DecBind(s, e + 1, [v EXCEPT !.res = TextOf(s, i + 1, e)])
         ELSE IF s[i].local = "jid"
              THEN IF ValidJIDText(TextOf(s, i + 1, e))
                   THEN DecBind(s, e + 1,
                            [v EXCEPT !.jid = ParseJID(TextOf(s, i + 1, e))])
                   ELSE Decoded(FALSE, v, e, FALSE)
         ELSE DecBind(s, e + 1, v)

\* decoding the content of an iq element into bindIQ (bind.go:46-51): a
\* bind child in the bind namespace fills Bind, an error child fills Err,
\* any other child is skipped
RECURSIVE DecIQ(_, _, _)
DecIQ(s, i, v) ==
    IF i > Len(s) THEN Decoded(FALSE, v, Len(s), TRUE)
    ELSE IF s[i].t = "end" THEN Decoded(TRUE, v, i, FALSE)
    ELSE IF s[i].t = "chars" THEN DecIQ(s, i + 1, v)
    ELSE IF s[i].space = NSBind /\ s[i].local = "bind"
         THEN LET r == DecBind(s, i + 1, v) IN
              IF r.ok THEN DecIQ(s, r.n + 1, r.v) ELSE r
    ELSE LET e == MatchEnd(s, i + 1, 0) IN
         IF e = 0 THEN Decoded(FALSE, v, Len(s), TRUE)
         ELSE IF s[i].local = "error"
              THEN DecIQ(s, e + 1,
                       [v EXCEPT !.err = StanzaErr(FirstChild(s, i + 1, e))])
         ELSE DecIQ(s, e + 1, v)

\* d.DecodeElement(&bindIQ, &start) on the tokens s that follow start
DecodeElement(start, s) ==
    IF \/ start.to # <<>> /\ ~ValidJIDText(start.to)
       \/ start.from # <<>> /\ ~ValidJIDText(start.from)
    THEN Decoded(FALSE, ZeroIQ, 0, FALSE)
    ELSE DecIQ(s, 1,
             [ZeroIQ EXCEPT !.id = start.id, !.type = start.type,
                 !.to = IF start.to = <<>> THEN NilJID ELSE ParseJID(start.to),
                 !.from = IF start.from = <<>> THEN NilJID
                          ELSE ParseJID(start.from)])

\* internal.GetAttr(start.Attr, "id")
GetAttrID(start) == start.id

-----------------------------------------------------------------------------
(* The peer when it is not this code: any element, whole or cut short *)

RandomIDs == {"X", "Y"}
RandomResources == {"aa11", "bb22"}
PeerIDs == {"", "X", "Y"}
IQTypes == {"result", "error", "set", "get"}

El(sp, l) == StartTok(sp, l, "", "", <<>>, <<>>)

PeerPayloads ==
    { <<>>,
      Wrap(Wrap(<<CharData(<<Bare, "/", "home">>)>>, El(NSBind, "jid")),
           El(NSBind, "bind")),
      Wrap(Wrap(<<CharData(<<Bare>>)>>, El(NSBind, "jid")), El(NSBind, "bind")),
      Wrap(Wrap(<<>>, El(NSBind, "jid")), El(NSBind, "bind")),
      Wrap(<<CharData(<<Bare, "/", "home">>)>>, El(NSClient, "jid")),
      Wrap(Wrap(<<CharData(<<"home">>)>>, El(NSBind, "resource")),
           El(NSBind, "bind")),
      Wrap(<<>>, El(NSBind, "bind")),
      Wrap(Wrap(<<>>, El(NSClient, "conflict")), El(NSClient, "error")),
      Wrap(Wrap(<<CharData(<<Bare, "/", "work">>)>>, El(NSBind, "jid")),
           El(NSBind, "bind"))
        \o Wrap(Wrap(<<>>, El(NSClient, "conflict")), El(NSClient, "error")) }

PeerIQs ==
    { Wrap(p, StartTok(NSClient, "iq", i, ty, <<>>, <<>>)) :
        p \in PeerPayloads, i \in PeerIDs, ty \in IQTypes }

PeerOthers ==
    { Wrap(<<>>, StartTok(NSClient, "message", "X", "", <<>>, <<>>)),
      Wrap(<<>>, StartTok(NSOther, "iq", "X", "result", <<>>, <<>>)),
      Wrap(<<>>, StartTok(NSClient, "iq", "X", "result", <<"/">>, <<>>)),
      Wrap(Wrap(Wrap(<<CharData(<<"home">>)>>, El(NSBind, "resource")),
                El(NSBind, "bind")),
           StartTok(NSClient, "iq", "X", "set", <<>>, <<Bare, "/", "home">>)),
      <<CharData(<<"x">>)>>,
      <<EndTok>> }

\* elements whose last token never arrives
PeerCut ==
    { SubSeq(e, 1, Len(e) - 1) :
        e \in { Wrap(p, StartTok(NSClient, "iq", "X", "result", <<>>, <<>>)) :
                  p \in PeerPayloads }
              \cup { Wrap(<<>>, StartTok(NSClient, "message", "X", "", <<>>, <<>>)) } }

PeerElems == PeerIQs \cup PeerOthers \cup PeerCut

\* the allocator passed to bind(server): any address or none, with no
\* error, a stanza.Error or another error
AllocResults ==
    { [j |-> j, err |-> e] :
        j \in {NilJID, JID(Bare, ""), JID(Bare, "home")},
        e \in {NoErr, StanzaErr("conflict"), OtherErr("alloc")} }

-----------------------------------------------------------------------------
(* Init *)

\* the parts of the state that a specification does not use
IdleNegotiate ==
    ineg = "none" /\ imask = NoMask /\ irw = "nil" /\ ierr = NoErr
    /\ ifault = ""
IdleEngine ==
    state = {} /\ state0 = {} /\ epc = "off" /\ selected = "" /\ rounds = 0
IdleRandom ==
    rn = 0 /\ rentropy = [ok |-> TRUE, b |-> <<>>] /\ rpc = "idle"
    /\ rid = <<>>

Init ==
    /\ scenario \in {"client", "server", "e2e"}
    /\ server \in IF scenario = "client" THEN {"nil"} ELSE {"nil", "custom"}
    /\ c2s = <<>> /\ s2c = <<>>
    /\ c2sClosed = FALSE /\ s2cClosed = FALSE
    /\ peerSent = 0
    /\ cpc = IF scenario = "server" THEN "absent" ELSE "request"
    /\ origin \in {JID(Bare, ""), JID(Bare, "home")}
    /\ origin0 = origin
    /\ reqID = ""
    /\ cstart = NoTok
    /\ resp = ZeroIQ
    /\ cmask = NoMask /\ cerr = NoErr /\ cret = 0
    /\ cin = <<>>
    /\ cwrites = <<>>
    /\ creads = 0
    /\ spc = IF scenario = "client" THEN "absent" ELSE "read"
    /\ sstart = NoTok
    /\ resReq = ZeroIQ
    /\ iqid = ""
    /\ sj = NilJID
    /\ salloc = NoErr
    /\ smask = NoMask /\ serr = NoErr /\ sret = 0
    /\ srw = "nil" /\ sorigin = JID("example.com", "") /\ sreads = 0
    /\ sin = <<>>
    /\ swrites = <<>>
    /\ swire = <<>>
    /\ feature = "" /\ irole = ""
    /\ challenges = <<>> /\ peerList = <<>> /\ advert = <<>>
    /\ ipc = "idle"
    /\ listOut = <<>> /\ listErr = NoErr
    /\ supported = FALSE /\ parseErr = NoErr
    /\ IdleNegotiate /\ IdleEngine /\ IdleRandom

\* the outcomes of a write to the session: it can fail unless the stream is
\* the fault-free one of the end-to-end scenario
WriteOutcomes == IF scenario = "e2e" THEN {TRUE} ELSE {TRUE, FALSE}

-----------------------------------------------------------------------------
(* The arbitrary peer *)

PeerSendToClient ==
    /\ scenario = "client"
    /\ peerSent < MaxPeerElems
    /\ ~s2cClosed
    /\ \E e \in PeerElems : s2c' = s2c \o e
    /\ peerSent' = peerSent + 1
    /\ UNCHANGED <<scenario, server, c2s, c2sClosed, s2cClosed>>
    /\ UNCHANGED <<cvars, svars>>
    /\ UNCHANGED ivars
    /\ UNCHANGED xvars

PeerSendToServer ==
    /\ scenario = "server"
    /\ peerSent < MaxPeerElems
    /\ ~c2sClosed
    /\ \E e \in PeerElems : c2s' = c2s \o e
    /\ peerSent' = peerSent + 1
    /\ UNCHANGED <<scenario, server, s2c, c2sClosed, s2cClosed>>
    /\ UNCHANGED <<cvars, svars>>
    /\ UNCHANGED ivars
    /\ UNCHANGED xvars

PeerClose ==
    /\ \/ scenario = "client" /\ ~s2cClosed
          /\ s2cClosed' = TRUE /\ UNCHANGED c2sClosed
       \/ scenario = "server" /\ ~c2sClosed
          /\ c2sClosed' = TRUE /\ UNCHANGED s2cClosed
    /\ UNCHANGED <<scenario, server, c2s, s2c, peerSent>>
    /\ UNCHANGED <<cvars, svars>>
    /\ UNCHANGED ivars
    /\ UNCHANGED xvars

-----------------------------------------------------------------------------
(* bind Negotiate, client branch: bind.go:168-219 *)

\* the value a return statement yields, and session.origin after it
Return(mask, err, org, line) ==
    [mask |-> mask, err |-> err, origin |-> org, line |-> line]

\* `return mask, nil, resp.Err`: a *stanza.Error returned as an error; a nil
\* pointer is still a non-nil error value
ErrOf(r) == IF r.err = NoErr THEN [kind |-> "stanza", cond |-> ""] ELSE r.err

\* a check of the local name alone
IsClientIQLocalOnly(start) == start.local = "iq"

\* case xml.Name{Space: ns.Client, Local: "iq"} (bind.go:126, 201)
IsClientIQ(start) == start.space = NSClient /\ start.local = "iq"

\* the switch with the type cases ahead of the id case
CheckResponseTypeFirst(r, id, org) ==
    IF r.type = "result" THEN Return(Ready, NoErr, r.jid, 219)
    ELSE IF r.id # id THEN Return(NoMask, UndefinedCondition, org, 211)
    ELSE IF r.type = "error" THEN Return(NoMask, ErrOf(r), org, 215)
    ELSE Return(NoMask, BadRequest, org, 217)

\* the switch with a result case that binds the requested resource locally
CheckResponseLocalAddr(r, id, org) ==
    IF r.id # id THEN Return(NoMask, UndefinedCondition, org, 211)
    ELSE IF r.type = "result" THEN Return(Ready, NoErr, org, 219)
    ELSE IF r.type = "error" THEN Return(NoMask, ErrOf(r), org, 215)
    ELSE Return(NoMask, BadRequest, org, 217)

\* the switch with a result case that returns the zero mask
CheckResponseNoMask(r, id, org) ==
    IF r.id # id THEN Return(NoMask, UndefinedCondition, org, 211)
    ELSE IF r.type = "result" THEN Return(NoMask, NoErr, r.jid, 219)
    ELSE IF r.type = "error" THEN Return(NoMask, ErrOf(r), org, 215)
    ELSE Return(NoMask, BadRequest, org, 217)

\* the switch with a result case that also returns the role bit
CheckResponseSetsReceived(r, id, org) ==
    IF r.id # id THEN Return(NoMask, UndefinedCondition, org, 211)
    ELSE IF r.type = "result"
    THEN Return(Ready \cup {"Received"}, NoErr, r.jid, 219)
    ELSE IF r.type = "error" THEN Return(NoMask, ErrOf(r), org, 215)
    ELSE Return(NoMask, BadRequest, org, 217)

\* the switch without the case of the error type
CheckResponseNoErrorCase(r, id, org) ==
    IF r.id # id THEN Return(NoMask, UndefinedCondition, org, 211)
    ELSE IF r.type = "result" THEN Return(Ready, NoErr, r.jid, 219)
    ELSE Return(NoMask, BadRequest, org, 217)

\* the switch of bind.go:209-219
CheckResponse(r, id, org) ==
    IF r.id # id THEN Return(NoMask, UndefinedCondition, org, 211)
    ELSE IF r.type = "result" THEN Return(Ready, NoErr, r.jid, 219)
    ELSE IF r.type = "error" THEN Return(NoMask, ErrOf(r), org, 215)
    ELSE Return(NoMask, BadRequest, org, 217)

\* bind.go:169-182
ClientSendRequest ==
    /\ cpc = "request"
    /\ \E id \in RandomIDs, ok \in WriteOutcomes :
         LET req == [ZeroIQ EXCEPT !.id = id, !.type = "set",
                                   !.res = Text(origin.res)]
         IN /\ reqID' = id
            /\ cwrites' = Append(cwrites, req)
            /\ IF ok
               THEN /\ c2s' = c2s \o WriteXML(req)
                    /\ cpc' = "read"
                    /\ UNCHANGED <<cerr, cret>>
               ELSE /\ c2s' = c2s
                    /\ cpc' = "done"
                    /\ cerr' = IOErr /\ cret' = 181
    /\ UNCHANGED <<scenario, server, s2c, c2sClosed, s2cClosed, peerSent>>
    /\ UNCHANGED <<origin, origin0, cstart, resp, cmask, cin, creads>>
    /\ UNCHANGED svars
    /\ UNCHANGED ivars
    /\ UNCHANGED xvars

\* bind.go:191-198
ClientReadToken ==
    /\ cpc = "read"
    /\ \/ /\ s2c # <<>>
          /\ s2c' = Tail(s2c)
          /\ cin' = Append(cin, Head(s2c))
          /\ creads' = creads + 1
          /\ IF Head(s2c).t = "start"
             THEN /\ cstart' = Head(s2c)
                  /\ cpc' = "decode"
                  /\ UNCHANGED <<cerr, cret>>
             ELSE /\ cstart' = cstart
                  /\ cpc' = "done"
                  /\ cerr' = BadFormat /\ cret' = 197
       \/ /\ s2c = <<>> /\ s2cClosed
          /\ creads' = creads + 1
          /\ cpc' = "done"
          /\ cerr' = IOErr /\ cret' = 193
          /\ UNCHANGED <<s2c, cstart, cin>>
    /\ UNCHANGED <<scenario, server, c2s, c2sClosed, s2cClosed, peerSent>>
    /\ UNCHANGED <<origin, origin0, reqID, resp, cmask, cwrites>>
    /\ UNCHANGED svars
    /\ UNCHANGED ivars
    /\ UNCHANGED xvars

\* bind.go:199-207
ClientDecode ==
    /\ cpc = "decode"
    /\ IF IsClientIQ(cstart)
       THEN LET r == DecodeElement(cstart, s2c) IN
            /\ ~r.eof \/ s2cClosed
            /\ s2c' = SubSeq(s2c, r.n + 1, Len(s2c))
            /\ cin' = cin \o SubSeq(s2c, 1, r.n)
            /\ IF r.ok
               THEN resp' = r.v /\ cpc' = "check" /\ UNCHANGED <<cerr, cret>>
               ELSE /\ resp' = resp /\ cpc' = "done"
                    /\ cerr' = DecodeErr /\ cret' = 203
       ELSE /\ cpc' = "done"
            /\ cerr' = BadFormat /\ cret' = 206
            /\ UNCHANGED <<s2c, cin, resp>>
    /\ UNCHANGED <<scenario, server, c2s, c2sClosed, s2cClosed, peerSent>>
    /\ UNCHANGED <<origin, origin0, reqID, cstart, cmask, cwrites, creads>>
    /\ UNCHANGED svars
    /\ UNCHANGED ivars
    /\ UNCHANGED xvars

\* bind.go:209-219
ClientCheck ==
    /\ cpc = "check"
    /\ LET o == CheckResponse(resp, reqID, origin) IN
         /\ cmask' = o.mask
         /\ cerr' = o.err
         /\ cret' = o.line
         /\ origin' = o.origin
    /\ cpc' = "done"
    /\ UNCHANGED <<scenario, server, c2s, s2c, c2sClosed, s2cClosed, peerSent>>
    /\ UNCHANGED <<origin0, reqID, cstart, resp, cin, cwrites, creads>>
    /\ UNCHANGED svars
    /\ UNCHANGED ivars
    /\ UNCHANGED xvars

-----------------------------------------------------------------------------
(* bind Negotiate, server branch: bind.go:115-166 *)

\* session.RemoteAddr()
RemoteAddr == JID(Bare, "")

\* jid.JID.WithResource
WithResource(j, r) == JID(j.bare, r)

\* stanzaErr, ok := err.(stanza.Error) (bind.go:142)
IsStanzaError(err) == err.kind = "stanza"

\* every allocation error ends Negotiate
PropagatedAny(err) == err # NoErr

\* no allocation error ends Negotiate
PropagatedNone(err) == FALSE

\* if err != nil && !ok (bind.go:143)
Propagated(err) == err # NoErr /\ ~IsStanzaError(err)

\* the bindIQ built at bind.go:147-162
Response(id, req, j, err) ==
    [ZeroIQ EXCEPT !.id = id, !.from = req.to, !.to = req.from,
                   !.type = "result",
                   !.err = IF IsStanzaError(err) THEN err ELSE NoErr,
                   !.jid = IF IsStanzaError(err) THEN NilJID ELSE j]

\* the server's own address
ServerAddr == JID("example.com", "")

\* a return that also marks the session ready and bound
ServerReturnBinds(err, org, line) ==
    [mask |-> IF err = NoErr THEN Ready ELSE NoMask, rw |-> "nil",
     err |-> err, origin |-> IF err = NoErr THEN sj ELSE org, line |-> line]

\* `return mask, nil, err` of the server branch: mask is never assigned and
\* session.origin is not touched
ServerReturn(err, org, line) ==
    [mask |-> NoMask, rw |-> "nil", err |-> err, origin |-> org,
     line |-> line]

SReturn(err, line) ==
    LET r == ServerReturn(err, sorigin, line) IN
    /\ smask' = r.mask
    /\ srw' = r.rw
    /\ serr' = r.err
    /\ sorigin' = r.origin
    /\ sret' = r.line

SRunning == UNCHANGED <<smask, srw, serr, sorigin, sret>>

\* bind.go:116-123
ServerReadToken ==
    /\ spc = "read"
    /\ \/ /\ c2s # <<>>
          /\ c2s' = Tail(c2s)
          /\ sin' = Append(sin, Head(c2s))
          /\ IF Head(c2s).t = "start"
             THEN /\ sstart' = Head(c2s)
                  /\ spc' = "decode"
                  /\ SRunning
             ELSE /\ sstart' = sstart
                  /\ spc' = "done"
                  /\ SReturn(BadFormat, 122)
       \/ /\ c2s = <<>> /\ c2sClosed
          /\ spc' = "done"
          /\ SReturn(IOErr, 118)
          /\ UNCHANGED <<c2s, sstart, sin>>
    /\ sreads' = sreads + 1
    /\ UNCHANGED <<scenario, server, s2c, c2sClosed, s2cClosed, peerSent>>
    /\ UNCHANGED <<resReq, iqid, sj, salloc, swrites, swire>>
    /\ UNCHANGED cvars
    /\ UNCHANGED ivars
    /\ UNCHANGED xvars

\* bind.go:124-134
ServerDecode ==
    /\ spc = "decode"
    /\ IF IsClientIQ(sstart)
       THEN LET r == DecodeElement(sstart, c2s) IN
            /\ ~r.eof \/ c2sClosed
            /\ c2s' = SubSeq(c2s, r.n + 1, Len(c2s))
            /\ sin' = sin \o SubSeq(c2s, 1, r.n)
            /\ IF r.ok
               THEN /\ resReq' = r.v
                    /\ iqid' = GetAttrID(sstart)
                    /\ spc' = "alloc"
                    /\ SRunning
               ELSE /\ spc' = "done"
                    /\ SReturn(DecodeErr, 128)
                    /\ UNCHANGED <<resReq, iqid>>
       ELSE /\ spc' = "done"
            /\ SReturn(BadFormat, 131)
            /\ UNCHANGED <<c2s, sin, resReq, iqid>>
    /\ UNCHANGED <<scenario, server, s2c, c2sClosed, s2cClosed, peerSent>>
    /\ UNCHANGED <<sstart, sj, salloc, swrites, swire, sreads>>
    /\ UNCHANGED cvars
    /\ UNCHANGED ivars
    /\ UNCHANGED xvars

\* bind.go:136-145
ServerAllocate ==
    /\ spc = "alloc"
    /\ \E a \in IF server = "custom"
                THEN AllocResults
                ELSE { [j |-> WithResource(RemoteAddr, r), err |-> NoErr] :
                         r \in RandomResources } :
         /\ sj' = a.j
         /\ salloc' = a.err
         /\ IF Propagated(a.err)
            THEN spc' = "done" /\ SReturn(a.err, 144)
            ELSE spc' = "respond" /\ SRunning
    /\ UNCHANGED <<scenario, server, c2s, s2c, c2sClosed, s2cClosed, peerSent>>
    /\ UNCHANGED <<sstart, resReq, iqid, sin, swrites, swire, sreads>>
    /\ UNCHANGED cvars
    /\ UNCHANGED ivars
    /\ UNCHANGED xvars

\* bind.go:147-165
ServerRespond ==
    /\ spc = "respond"
    /\ \E ok \in WriteOutcomes :
         LET r == Response(iqid, resReq, sj, salloc) IN
         /\ swrites' = Append(swrites, r)
         /\ swire' = Append(swire, WriteXML(r))
         /\ s2c' = IF ok THEN s2c \o WriteXML(r) ELSE s2c
         /\ SReturn(IF ok THEN NoErr ELSE IOErr, 165)
    /\ spc' = "done"
    /\ UNCHANGED <<scenario, server, c2s, c2sClosed, s2cClosed, peerSent>>
    /\ UNCHANGED <<sstart, resReq, iqid, sj, salloc, sin, sreads>>
    /\ UNCHANGED cvars
    /\ UNCHANGED ivars
    /\ UNCHANGED xvars

-----------------------------------------------------------------------------

Next ==
    \/ PeerSendToClient
    \/ PeerSendToServer
    \/ PeerClose
    \/ ClientSendRequest
    \/ ClientReadToken
    \/ ClientDecode
    \/ ClientCheck
    \/ ServerReadToken
    \/ ServerDecode
    \/ ServerAllocate
    \/ ServerRespond

Spec == Init /\ [][Next]_vars

TypeOK ==
    /\ cpc \in {"absent", "request", "read", "decode", "check", "done"}
    /\ spc \in {"absent", "read", "decode", "alloc", "respond", "done"}
    /\ cmask \in {NoMask, Ready}
    /\ smask = NoMask
    /\ Len(cin) <= 16 /\ Len(sin) <= 16

-----------------------------------------------------------------------------
(* Properties of bind Negotiate *)

ClientDone == cpc = "done"
ServerDone == spc = "done"

\* the client reached the switch at bind.go:209
ClientChecked == ClientDone /\ cret \in {211, 215, 217, 219}

\* s has a start token with local name l
HasElem(s, l) == \E i \in 1..Len(s) : s[i].t = "start" /\ s[i].local = l

\* the address texts a consumed element carries in a jid element that is the
\* first child of a bind element of the bind namespace
CarriedAddrs(s) ==
    { s[i + 1].data : i \in { k \in 2..(Len(s) - 1) :
          /\ s[k].t = "start" /\ s[k].local = "jid"
          /\ s[k - 1].t = "start" /\ s[k - 1].local = "bind"
          /\ s[k - 1].space = NSBind
          /\ s[k + 1].t = "chars" } }

\* C1: when the id of the response IQ the client read differs from the
\* request id, Negotiate fails with undefined-condition, returns the empty
\* mask and leaves session.origin as it was, whatever the response's type
\* and payload.
C1_IdMismatchIsUndefinedCondition ==
    (ClientChecked /\ cin[1].id # reqID)
        => /\ cerr = UndefinedCondition
           /\ cmask = NoMask
           /\ origin = origin0

C1_Witness ==
    /\ ClientChecked /\ cin[1].id # reqID
    /\ cin[1].type = "result"
    /\ CarriedAddrs(cin) # {}
    /\ cerr = UndefinedCondition

\* C2: when the client's Negotiate returns no error, the mask is exactly
\* Ready and session.origin is the address the result payload carried (none
\* when it carried none).
C2_SuccessAddressIsCarriedAddress ==
    (ClientDone /\ cret # 0 /\ cerr = NoErr)
        => /\ cmask = Ready
           /\ IF CarriedAddrs(cin) = {} THEN origin = NilJID
              ELSE JIDString(origin) \in CarriedAddrs(cin)

C2_Witness ==
    /\ ClientDone /\ cerr = NoErr /\ cmask = Ready
    /\ CarriedAddrs(cin) = {<<Bare>>}
    /\ origin = JID(Bare, "") /\ origin0 = JID(Bare, "home")

\* C3: every response the server writes carries the id of the request it
\* read.
C3_ResponseEchoesRequestId ==
    \A i \in 1..Len(swire) : swire[i][1].id = sin[1].id

\* C4: with both sides this code, no custom allocator and a fault-free
\* stream, once both calls have returned the client has succeeded, its
\* address is the one the server assigned and its mask includes Ready.
C4_EndToEndBindSucceeds ==
    (scenario = "e2e" /\ server = "nil" /\ ClientDone /\ ServerDone)
        => /\ cerr = NoErr
           /\ origin = sj
           /\ Ready \subseteq cmask

\* C5: when allocation fails with a stanza error, the response written is
\* an IQ of type error carrying it, and the client reading it returns that
\* error, no Ready, and keeps its address.
C5_EndToEndBindError ==
    (scenario = "e2e" /\ ClientDone /\ ServerDone /\ IsStanzaError(salloc))
        => /\ Len(swire) = 1
           /\ swire[1][1].type = "error"
           /\ HasElem(swire[1], salloc.cond)
           /\ cerr = salloc
           /\ cmask = NoMask
           /\ origin = origin0

\* C6: after allocation, a stanza error leads to exactly one response, which
\* carries the error and no address, and is not what Negotiate returns; any
\* other error is returned and no response is written.
C6_AllocationFailures ==
    (ServerDone /\ sret \in {144, 165})
        => /\ IsStanzaError(salloc)
                => /\ Len(swrites) = 1 /\ Len(swire) = 1
                   /\ swrites[1].err = salloc
                   /\ HasElem(swire[1], "error")
                   /\ HasElem(swire[1], salloc.cond)
                   /\ ~HasElem(swire[1], "jid")
                   /\ serr # salloc
           /\ (salloc # NoErr /\ ~IsStanzaError(salloc))
                => /\ serr = salloc
                   /\ swrites = <<>> /\ swire = <<>> /\ s2c = <<>>

C6_Witness ==
    /\ ServerDone /\ sret = 165
    /\ IsStanzaError(salloc) /\ sj # NilJID
    /\ Len(swire) = 1 /\ HasElem(swire[1], "conflict")
    /\ serr = NoErr

\* C7: when the first token the server reads is not a start element, or is
\* a start element other than iq in the client namespace, Negotiate returns
\* bad-format and the empty mask and writes nothing.
C7_MalformedRequestIsBadFormat ==
    (ServerDone /\ sin # <<>> /\ ~(sin[1].t = "start" /\ sin[1].space = NSClient
                                     /\ sin[1].local = "iq"))
        => /\ serr = BadFormat
           /\ smask = NoMask
           /\ swrites = <<>> /\ swire = <<>> /\ s2c = <<>>

C7_Witness ==
    /\ ServerDone /\ sin # <<>>
    /\ sin[1].t = "start" /\ sin[1].local = "iq" /\ sin[1].space = NSOther
    /\ serr = BadFormat

\* C8: when Negotiate returns, in either role, every element whose start
\* token it consumed has had its end token consumed too.
C8_ReturnsAtElementBoundary ==
    /\ ClientDone => OpenAfter(cin, 0) = 0
    /\ ServerDone => OpenAfter(sin, 0) = 0

\* C15: on every return of the server branch the mask is empty and rw is
\* nil, whether the exchange succeeded, carried a stanza error or failed, and
\* the session's own address is never changed.
C15_ServerReturnsNoDelta ==
    /\ sorigin = ServerAddr
    /\ ServerDone =>
          /\ sret \in {118, 122, 128, 131, 144, 165}
          /\ smask = NoMask
          /\ srw = "nil"

C15_Witness ==
    /\ ServerDone /\ sret = 165 /\ serr = NoErr
    /\ salloc = NoErr /\ sj = JID(Bare, "home")
    /\ Len(swrites) = 1 /\ swrites[1].jid = sj

\* the address texts written in jid elements
WrittenAddrs(s) ==
    { s[i + 1].data : i \in { k \in 1..(Len(s) - 1) :
          /\ s[k].t = "start" /\ s[k].local = "jid"
          /\ s[k + 1].t = "chars" } }

\* C16: when the request asks for no resource, an address the server writes
\* in its response has a resource part; with no allocator configured it is
\* the base address with a generated identifier as its resource.
C16_AssignedAddressHasResource ==
    (ServerDone /\ sret = 165 /\ resReq.res = <<>> /\ Len(swrites) = 1)
        => /\ swrites[1].jid # NilJID => swrites[1].jid.res # ""
           /\ \A a \in WrittenAddrs(swire[1]) :
                 Len(a) = 3 /\ a[2] = "/" /\ a[3] # ""
           /\ server = "nil" =>
                 /\ swrites[1].jid \in { WithResource(RemoteAddr, r) :
                                           r \in RandomResources }
                 /\ WrittenAddrs(swire[1]) = {JIDString(swrites[1].jid)}

\* the client read the start of an iq of the client namespace with the id
\* of the request and the type typ, and decoded the element
ReadIQ(typ) ==
    /\ Len(cin) >= 1
    /\ cin[1].t = "start"
    /\ cin[1].space = NSClient /\ cin[1].local = "iq"
    /\ cin[1].id = reqID /\ cin[1].type = typ
    /\ cret \notin {203}

\* C18: the client returns Ready exactly when it read and decoded an iq of
\* the client namespace with the request's id and type result; in every
\* other outcome the mask is empty, session.origin is unchanged and an error
\* is returned: the carried stanza error for type error, bad-request for any
\* other type.
C18_ReadyIffMatchingResult ==
    ClientDone =>
        /\ (cmask = Ready) <=> ReadIQ("result")
        /\ cmask = Ready => cerr = NoErr
        /\ cmask # Ready =>
              /\ cmask = NoMask
              /\ origin = origin0
              /\ cerr # NoErr
              /\ cret \in {181, 193, 197, 203, 206, 211, 215, 217}
        /\ ReadIQ("error") =>
              /\ cret = 215
              /\ cerr = IF HasElem(cin, "error") THEN StanzaErr("conflict")
                        ELSE StanzaErr("")
        /\ (\E ty \in {"set", "get", ""} : ReadIQ(ty)) =>
              cret = 217 /\ cerr = BadRequest

C18_Witness ==
    /\ ClientDone /\ ReadIQ("error") /\ HasElem(cin, "error")
    /\ cerr = StanzaErr("conflict") /\ cmask = NoMask /\ origin = origin0

\* the elements that begin in s outside any other element
TopLevelStarts(s) ==
    { i \in 1..Len(s) : s[i].t = "start" /\ OpenAfter(SubSeq(s, 1, i - 1), 0) = 0 }

\* C19: in one call the client writes its request once and reads only after
\* it, at most one top-level token and one element, nothing when the write
\* failed; the server reads one top-level token and one element and writes
\* only after it, at most one response, none when the read, the decoding or
\* an allocation with an error that is not a stanza error failed.
C19_OneWriteOneRead ==
    /\ Len(cwrites) <= 1 /\ creads <= 1
    /\ Cardinality(TopLevelStarts(cin)) <= 1
    /\ (creads = 1 \/ cin # <<>>) => Len(cwrites) = 1
    /\ ClientDone =>
          /\ Len(cwrites) = 1
          /\ cret = 181 => (creads = 0 /\ cin = <<>>)
          /\ cret # 181 => creads = 1
    /\ sreads <= 1 /\ Len(swrites) <= 1 /\ Len(swire) = Len(swrites)
    /\ Cardinality(TopLevelStarts(sin)) <= 1
    /\ sin # <<>> => sreads = 1
    /\ Len(swrites) = 1 =>
          /\ sreads = 1
          /\ Cardinality(TopLevelStarts(sin)) = 1
          /\ sret = 165
    /\ ServerDone =>
          /\ sreads = 1
          /\ sret \in {118, 122, 128, 131, 144} => swrites = <<>>
          /\ salloc.kind = "other" => swrites = <<>>
          /\ sret = 165 => Len(swrites) = 1

C19_Witness ==
    /\ ServerDone /\ sret = 144 /\ salloc.kind = "other"
    /\ sreads = 1 /\ Cardinality(TopLevelStarts(sin)) = 1
    /\ swrites = <<>>

\* C20: whenever the client returns Ready, session.origin is an address
\* that is present and has a resource part, whatever the matching result
\* response carried.
C20_ReadyMeansFullAddress ==
    (ClientDone /\ cmask = Ready) => (origin # NilJID /\ origin.res # "")

-----------------------------------------------------------------------------
(* ibr2: listFunc and parseFunc, ibr2.go:26-86 *)

NSIbr == "urn:xmpp:register:0"
ChallengeTypes == {"a", "b", "c"}
Lists == UNION { [1..k -> ChallengeTypes] : k \in 0..MaxLen }

\* the set of elements of a sequence
Range(f) == { f[i] : i \in 1..Len(f) }

\* the loop without the seen map
RECURSIVE ListChallengesNoDedup(_, _)
ListChallengesNoDedup(cs, seen) ==
    IF cs = <<>> THEN <<>>
    ELSE Wrap(<<CharData(Text(Head(cs)))>>, El("", "challenge"))
         \o ListChallengesNoDedup(Tail(cs), seen)

\* the loop of ibr2.go:33-51 with all tokens encoded
RECURSIVE ListChallenges(_, _)
ListChallenges(cs, seen) ==
    IF cs = <<>> THEN <<>>
    ELSE IF Head(cs) \in seen THEN ListChallenges(Tail(cs), seen)
    ELSE Wrap(<<CharData(Text(Head(cs)))>>, El("", "challenge"))
         \o ListChallenges(Tail(cs), seen \cup {Head(cs)})

\* listFunc(challenges...)(ctx, e, start) when the k-th EncodeToken call
\* fails (k in 1..n), when Flush fails (k = n + 1) or nothing fails (k = 0)
listFunc(cs, start, k) ==
    LET full == <<start>> \o ListChallenges(cs, {}) \o <<EndTok>> IN
    IF k = 0 THEN [out |-> full, err |-> NoErr]
    ELSE IF k > Len(full) THEN [out |-> full, err |-> IOErr]
    ELSE [out |-> SubSeq(full, 1, k - 1), err |-> IOErr]

\* d.DecodeElement(&parsed, start): Challenges []string
\* `xml:"urn:xmpp:register:0 challenge"` (ibr2.go:63-69)
RECURSIVE DecChallenges(_, _, _)
DecChallenges(s, i, v) ==
    IF i > Len(s) THEN Decoded(FALSE, v, Len(s), TRUE)
    ELSE IF s[i].t = "end" THEN Decoded(TRUE, v, i, FALSE)
    ELSE IF s[i].t = "chars" THEN DecChallenges(s, i + 1, v)
    ELSE LET e == MatchEnd(s, i + 1, 0) IN
         IF e = 0 THEN Decoded(FALSE, v, Len(s), TRUE)
         ELSE IF s[i].space = NSIbr /\ s[i].local = "challenge"
              THEN DecChallenges(s, e + 1, Append(v, TextOf(s, i + 1, e)))
         ELSE DecChallenges(s, e + 1, v)

\* parseFunc(challenges...)(ctx, d, start) on the tokens s after start
parseFunc(cs, s) ==
    LET r == DecChallenges(s, 1, <<>>) IN
    IF ~r.ok THEN [supported |-> FALSE, err |-> DecodeErr]
    ELSE LET m == { Text(cs[i]) : i \in 1..Len(cs) } \cup Range(r.v)
         IN [supported |-> Cardinality(m) <= Len(cs), err |-> NoErr]

\* a peer's feature element listing the types of p, each in a challenge
\* element; with `foreign`, also an element of another namespace
RECURSIVE PeerChallenges(_)
PeerChallenges(p) ==
    IF p = <<>> THEN <<>>
    ELSE Wrap(<<CharData(<<Head(p)>>)>>, El(NSIbr, "challenge"))
         \o PeerChallenges(Tail(p))

PeerAdvert(f, p, foreign) ==
    Wrap((IF foreign
          THEN Wrap(<<CharData(<<"c">>)>>, El(NSClient, "challenge"))
          ELSE <<>>) \o PeerChallenges(p),
         El(NSIbr, f))

InitIBR ==
    /\ scenario = "ibr" /\ server = "nil"
    /\ c2s = <<>> /\ s2c = <<>>
    /\ c2sClosed = FALSE /\ s2cClosed = FALSE
    /\ peerSent = 0
    /\ cpc = "absent"
    /\ origin = JID(Bare, "") /\ origin0 = origin
    /\ reqID = "" /\ cstart = NoTok /\ resp = ZeroIQ
    /\ cmask = NoMask /\ cerr = NoErr /\ cret = 0
    /\ cin = <<>> /\ cwrites = <<>> /\ creads = 0
    /\ spc = "absent"
    /\ sstart = NoTok /\ resReq = ZeroIQ /\ iqid = "" /\ sj = NilJID
    /\ salloc = NoErr
    /\ smask = NoMask /\ serr = NoErr /\ sret = 0
    /\ srw = "nil" /\ sorigin = JID("example.com", "") /\ sreads = 0
    /\ sin = <<>> /\ swrites = <<>> /\ swire = <<>>
    /\ feature \in {"register", "recovery"}
    /\ irole \in {"offer", "parse"}
    /\ challenges \in Lists
    /\ peerList = <<>> /\ advert = <<>>
    /\ ipc = "idle"
    /\ listOut = <<>> /\ listErr = NoErr
    /\ supported = FALSE /\ parseErr = NoErr
    /\ IdleNegotiate /\ IdleEngine /\ IdleRandom

\* the offering side calls List
IbrList ==
    /\ irole = "offer" /\ ipc = "idle"
    /\ \E k \in 0..(Len(listFunc(challenges, El(NSIbr, feature), 0).out) + 1) :
         LET r == listFunc(challenges, El(NSIbr, feature), k) IN
         /\ listOut' = r.out
         /\ listErr' = r.err
    /\ ipc' = "done"
    /\ UNCHANGED <<feature, irole, challenges, peerList, advert, supported,
                   parseErr>>
    /\ UNCHANGED <<bvars, cvars, svars>>
    /\ UNCHANGED xvars

\* the peer advertises the feature: the output of its own List, or any
\* well-formed list, or one cut short
IbrPeerAdvertise ==
    /\ irole = "parse" /\ ipc = "idle"
    /\ \E p \in Lists :
         /\ peerList' = p
         /\ \E whole \in { PeerAdvert(feature, p, fo) : fo \in BOOLEAN }
                     \cup { Resolved(listFunc(p, El(NSIbr, feature), 0).out,
                                     <<NSClient>>) } :
              advert' \in {whole, SubSeq(whole, 1, Len(whole) - 1)}
    /\ ipc' = "advertised"
    /\ UNCHANGED <<feature, irole, challenges, listOut, listErr, supported,
                   parseErr>>
    /\ UNCHANGED <<bvars, cvars, svars>>
    /\ UNCHANGED xvars

\* the side that received the advertisement calls Parse
IbrParse ==
    /\ irole = "parse" /\ ipc = "advertised"
    /\ LET r == parseFunc(challenges, Tail(advert)) IN
         /\ supported' = r.supported
         /\ parseErr' = r.err
    /\ ipc' = "done"
    /\ UNCHANGED <<feature, irole, challenges, peerList, advert, listOut,
                   listErr>>
    /\ UNCHANGED <<bvars, cvars, svars>>
    /\ UNCHANGED xvars

\* the condition without the role test
negotiateFuncAnyRole(received, sup) ==
    IF ~sup
    THEN [out |-> "return", mask |-> NoMask, rw |-> "nil", err |-> NoErr,
          fault |-> ""]
    ELSE [out |-> "panic", mask |-> NoMask, rw |-> "nil", err |-> NoErr,
          fault |-> "not yet supported"]

\* ibr2.go:88-102: the bare return yields the zero values of the named
\* results; everything else reaches the panic
negotiateFunc(received, sup) ==
    IF ~received /\ ~sup
    THEN [out |-> "return", mask |-> NoMask, rw |-> "nil", err |-> NoErr,
          fault |-> ""]
    ELSE [out |-> "panic", mask |-> NoMask, rw |-> "nil", err |-> NoErr,
          fault |-> "not yet supported"]

\* Negotiate is called with the data of Parse on the initiating side; the
\* offering side has the Received bit set
IbrNegotiate ==
    /\ ipc = "done"
    /\ listErr = NoErr /\ parseErr = NoErr
    /\ LET r == negotiateFunc(irole = "offer", supported) IN
         /\ ineg' = r.out
         /\ imask' = r.mask
         /\ irw' = r.rw
         /\ ierr' = r.err
         /\ ifault' = r.fault
    /\ ipc' = "negotiated"
    /\ UNCHANGED <<feature, irole, challenges, peerList, advert, listOut,
                   listErr, supported, parseErr>>
    /\ UNCHANGED <<bvars, cvars, svars, evars, rvars>>

NextIBR ==
    \/ IbrList
    \/ IbrPeerAdvertise
    \/ IbrParse
    \/ IbrNegotiate

SpecIBR == InitIBR /\ [][NextIBR]_vars

-----------------------------------------------------------------------------
(* Properties of ibr2 *)

\* the challenge types in encoded tokens, in order
RECURSIVE TypesIn(_)
TypesIn(s) ==
    IF s = <<>> THEN <<>>
    ELSE IF Head(s).t = "chars" THEN Head(s).data \o TypesIn(Tail(s))
    ELSE TypesIn(Tail(s))

\* index of the first occurrence of x in the sequence f
FirstIndex(f, x) ==
    CHOOSE i \in 1..Len(f) : f[i] = x /\ \A j \in 1..(i - 1) : f[j] # x

\* C9: for a well-formed advertisement of the list peerList, Parse returns
\* supported = TRUE exactly when every type of peerList is among the local
\* challenges.
C9_SupportedIffPeerSubset ==
    (irole = "parse" /\ ipc = "done" /\ parseErr = NoErr)
        => (supported <=> Range(peerList) \subseteq Range(challenges))

\* C10: when List returns no error, what it encoded is the start element,
\* then one challenge element per distinct type of the list, in the order
\* of first occurrence, then the end element.
C10_AdvertisesEachTypeOnce ==
    (irole = "offer" /\ ipc = "done" /\ listErr = NoErr)
        => LET ts == TypesIn(listOut) IN
           /\ Range(ts) = Range(challenges)
           /\ \A i, j \in 1..Len(ts) :
                i < j => /\ ts[i] # ts[j]
                         /\ FirstIndex(challenges, ts[i])
                              < FirstIndex(challenges, ts[j])
           /\ Len(listOut) = 3 * Len(ts) + 2
           /\ listOut[1] = El(NSIbr, feature)
           /\ listOut[Len(listOut)] = EndTok
           /\ \A i \in 1..Len(ts) :
                /\ listOut[3 * i - 1] = El("", "challenge")
                /\ listOut[3 * i] = CharData(<<ts[i]>>)
                /\ listOut[3 * i + 1] = EndTok

C10_Witness ==
    /\ irole = "offer" /\ ipc = "done" /\ listErr = NoErr
    /\ challenges = <<"b", "a", "b">>
    /\ TypesIn(listOut) = <<"b", "a">>

\* C11: Negotiate of the registration features returns normally only on the
\* initiating side when the compatibility check failed, and then with no
\* error, an empty mask and no replacement transport; in every other case it
\* ends in the "not yet supported" panic and yields no mask
C11_NegotiateReturnsOnlyWhenUnsupportedInitiator ==
    ipc = "negotiated" =>
        /\ ineg \in {"return", "panic"}
        /\ (ineg = "return") <=> (irole = "parse" /\ ~supported)
        /\ ineg = "return" =>
               ierr = NoErr /\ imask = NoMask /\ irw = "nil" /\ ifault = ""
        /\ ineg = "panic" =>
               ifault = "not yet supported" /\ imask = NoMask

C11_Witness ==
    /\ ipc = "negotiated" /\ irole = "parse" /\ ~supported
    /\ Len(peerList) > 0
    /\ ineg = "return"

-----------------------------------------------------------------------------
(* The negotiation engine driving the features *)


\* bind.go:91, ibr2.go:109, ibr2.go:122
Necessary(f) == IF f = "bind" THEN {"Authn"} ELSE {"Secure"}

\* no feature is prohibited in any state
ProhibitedNone(f) == {}

\* bind.go:92, ibr2.go:110, ibr2.go:123
Prohibited(f) == IF f = "bind" THEN {"Ready"} ELSE {"Authn"}

\* (state & Necessary) == Necessary and (state & Prohibited) == 0
Eligible(f, st) ==
    /\ Necessary(f) \subseteq st
    /\ Prohibited(f) \cap st = {}

\* the features registered with the session
Features == {"bind", feature}

InitEngine ==
    /\ scenario = "engine"
    /\ c2s = <<>> /\ s2c = <<>>
    /\ c2sClosed = FALSE /\ s2cClosed = FALSE
    /\ peerSent = 0
    /\ cpc = "absent"
    /\ reqID = "" /\ cstart = NoTok /\ resp = ZeroIQ
    /\ cmask = NoMask /\ cerr = NoErr /\ cret = 0
    /\ cin = <<>> /\ cwrites = <<>> /\ creads = 0
    /\ spc = "absent"
    /\ sstart = NoTok /\ resReq = ZeroIQ /\ iqid = "" /\ sj = NilJID
    /\ salloc = NoErr
    /\ smask = NoMask /\ serr = NoErr /\ sret = 0
    /\ srw = "nil" /\ sorigin = JID("example.com", "") /\ sreads = 0
    /\ sin = <<>> /\ swrites = <<>> /\ swire = <<>>
    /\ peerList = <<>> /\ advert = <<>>
    /\ ipc = "off"
    /\ listOut = <<>> /\ listErr = NoErr
    /\ supported = FALSE /\ parseErr = NoErr
    /\ IdleNegotiate /\ IdleRandom
    /\ state0 \in { r \cup b : r \in {{}, {"Received"}},
                               b \in SUBSET {"Secure", "Authn", "Ready"} }
    /\ state = state0
    /\ epc = "select" /\ selected = "" /\ rounds = 0
    /\ irole = IF "Received" \in state0 THEN "offer" ELSE "parse"
    /\ \/ /\ Eligible("bind", state0)
          /\ server \in IF "Received" \in state0 THEN {"nil", "custom"}
                                                 ELSE {"nil"}
          /\ origin \in {JID(Bare, ""), JID(Bare, "home")}
          /\ feature = "register" /\ challenges = <<>>
       \/ /\ ~Eligible("bind", state0)
          /\ server = "nil"
          /\ origin = JID(Bare, "")
          /\ feature \in {"register", "recovery"}
          /\ challenges \in { l \in Lists : Len(l) <= 1 }
    /\ origin0 = origin

\* a call of bind's Negotiate begins: its locals are fresh, the peer has
\* taken what was written to it before
StartBind ==
    /\ rounds' = IF rounds < MaxRounds THEN rounds + 1 ELSE rounds
    /\ IF "Received" \in state
       THEN /\ spc' = "read"
            /\ sstart' = NoTok /\ resReq' = ZeroIQ /\ iqid' = ""
            /\ sj' = NilJID /\ salloc' = NoErr
            /\ smask' = NoMask /\ serr' = NoErr /\ sret' = 0
            /\ srw' = "nil" /\ sreads' = 0
            /\ sin' = <<>> /\ swrites' = <<>> /\ swire' = <<>>
            /\ s2c' = <<>>
            /\ UNCHANGED <<sorigin, c2s, cvars>>
       ELSE /\ cpc' = "request"
            /\ origin0' = origin
            /\ reqID' = "" /\ cstart' = NoTok /\ resp' = ZeroIQ
            /\ cmask' = NoMask /\ cerr' = NoErr /\ cret' = 0
            /\ cin' = <<>> /\ cwrites' = <<>> /\ creads' = 0
            /\ c2s' = <<>>
            /\ UNCHANGED <<origin, s2c, svars>>
    /\ UNCHANGED <<scenario, server, c2sClosed, s2cClosed, peerSent>>
    /\ UNCHANGED <<ivars, nvars>>

\* the advertisement of a registration feature begins
StartIbr ==
    /\ ipc' = "idle"
    /\ UNCHANGED <<feature, irole, challenges, peerList, advert, listOut,
                   listErr, supported, parseErr>>
    /\ UNCHANGED <<bvars, cvars, svars, nvars, rounds>>

\* the engine picks the next eligible feature; it succeeds when Ready is set
\* and fails when nothing is eligible
EngineSelect ==
    /\ epc = "select"
    /\ IF "Ready" \in state
       THEN /\ epc' = "success"
            /\ UNCHANGED <<bvars, cvars, svars, ivars, nvars, selected,
                           rounds>>
       ELSE IF \A f \in Features : ~Eligible(f, state)
       THEN /\ epc' = "failed"
            /\ UNCHANGED <<bvars, cvars, svars, ivars, nvars, selected,
                           rounds>>
       ELSE \E f \in Features :
              /\ Eligible(f, state)
              /\ selected' = f
              /\ epc' = "negotiating"
              /\ IF f = "bind" THEN StartBind ELSE StartIbr
    /\ UNCHANGED <<state, state0, rvars>>

\* the result of the feature that ran: whether it is over, its mask, its
\* error, and whether it ended in a panic
Outcome ==
    IF selected = "bind"
    THEN IF "Received" \in state
         THEN [over |-> spc = "done", mask |-> smask, err |-> serr,
               fault |-> FALSE, skip |-> FALSE]
         ELSE [over |-> cpc = "done", mask |-> cmask, err |-> cerr,
               fault |-> FALSE, skip |-> FALSE]
    ELSE IF ipc = "negotiated"
         THEN [over |-> TRUE, mask |-> imask, err |-> ierr,
               fault |-> ineg = "panic", skip |-> ineg = "return"]
         ELSE [over |-> ipc = "done" /\ (listErr # NoErr \/ parseErr # NoErr),
               mask |-> NoMask,
               err |-> IF listErr # NoErr THEN listErr ELSE parseErr,
               fault |-> FALSE, skip |-> FALSE]

\* the engine takes the result of Negotiate: an error ends the negotiation,
\* otherwise the mask is ORed into the state; a feature that declined to
\* negotiate leaves nothing eligible
EngineApply ==
    /\ epc = "negotiating"
    /\ Outcome.over
    /\ IF Outcome.fault
       THEN epc' = "fault" /\ state' = state
       ELSE IF Outcome.err # NoErr
       THEN epc' = "failed" /\ state' = state
       ELSE /\ state' = state \cup Outcome.mask
            /\ epc' = IF "Ready" \in state' THEN "success"
                      ELSE IF Outcome.skip THEN "failed"
                      ELSE "select"
    /\ UNCHANGED <<state0, selected, rounds>>
    /\ UNCHANGED <<bvars, cvars, svars, ivars, nvars, rvars>>

\* what the peer of a session driven by the engine sends: requests,
\* responses and errors with either id, another element, a cut one
EnginePeerElems ==
    { Wrap(p, StartTok(NSClient, "iq", i, ty, <<>>, <<>>)) :
        p \in { <<>>,
                Wrap(Wrap(<<CharData(<<Bare, "/", "home">>)>>,
                          El(NSBind, "jid")), El(NSBind, "bind")),
                Wrap(Wrap(<<CharData(<<"home">>)>>, El(NSBind, "resource")),
                     El(NSBind, "bind")),
                Wrap(Wrap(<<>>, El(NSClient, "conflict")),
                     El(NSClient, "error")) },
        i \in RandomIDs, ty \in {"result", "error", "set"} }
    \cup { Wrap(<<>>, StartTok(NSClient, "message", "X", "", <<>>, <<>>)),
           <<StartTok(NSClient, "iq", "X", "result", <<>>, <<>>)>> }

\* the peer sends an element while the session waits for input
EnginePeerSend ==
    /\ scenario = "engine"
    /\ epc = "negotiating" /\ selected = "bind"
    /\ IF "Received" \in state
       THEN /\ spc \in {"read", "decode"}
            /\ c2s = <<>> /\ ~c2sClosed
            /\ \E e \in EnginePeerElems : c2s' = e
            /\ UNCHANGED s2c
       ELSE /\ cpc \in {"read", "decode"}
            /\ s2c = <<>> /\ ~s2cClosed
            /\ \E e \in EnginePeerElems : s2c' = e
            /\ UNCHANGED c2s
    /\ UNCHANGED <<scenario, server, c2sClosed, s2cClosed, peerSent>>
    /\ UNCHANGED <<cvars, svars, ivars, xvars>>

\* the peer closes the stream
EnginePeerClose ==
    /\ scenario = "engine"
    /\ epc = "negotiating" /\ selected = "bind"
    /\ IF "Received" \in state
       THEN ~c2sClosed /\ c2sClosed' = TRUE /\ UNCHANGED s2cClosed
       ELSE ~s2cClosed /\ s2cClosed' = TRUE /\ UNCHANGED c2sClosed
    /\ UNCHANGED <<scenario, server, c2s, s2c, peerSent>>
    /\ UNCHANGED <<cvars, svars, ivars, xvars>>

\* the steps of the features' own code
FeatureSteps ==
    \/ ClientSendRequest
    \/ ClientReadToken
    \/ ClientDecode
    \/ ClientCheck
    \/ ServerReadToken
    \/ ServerDecode
    \/ ServerAllocate
    \/ ServerRespond
    \/ IbrList
    \/ IbrParse
    \/ IbrNegotiate

NextEngine ==
    \/ EngineSelect
    \/ EngineApply
    \/ EnginePeerSend
    \/ EnginePeerClose
    \/ IbrPeerAdvertise
    \/ FeatureSteps

\* the engine and the features run whenever they can; the peer need not
SpecEngine ==
    /\ InitEngine
    /\ [][NextEngine]_vars
    /\ WF_vars(EngineSelect)
    /\ WF_vars(EngineApply)
    /\ WF_vars(FeatureSteps)

-----------------------------------------------------------------------------
(* Properties of the engine *)

\* C12 as stated: from a state with Authn set and Ready clear, on either
\* side, the engine eventually stops selecting: it does not come back to
\* the selection of a feature again and again
C12_EngineStopsOnBothRoles ==
    ("Authn" \in state0 /\ "Ready" \notin state0) => <>[](epc # "select")

\* C12: on the initiating side, from a state with Authn set and Ready clear,
\* bind is negotiated at most once, and when its Negotiate has returned the
\* engine has stopped: in success exactly when Ready is set, else in failure
C12_ClientStopsAfterOneBind ==
    ("Received" \notin state0 /\ "Authn" \in state0 /\ "Ready" \notin state0)
        => /\ rounds <= 1
           /\ (rounds = 1 /\ epc # "negotiating") =>
                 /\ epc \in {"success", "failed"}
                 /\ (epc = "success") <=> ("Ready" \in state)
                 /\ (epc = "failed") <=> (cerr # NoErr)

C12_Witness ==
    /\ "Received" \notin state0 /\ "Authn" \in state0 /\ "Ready" \notin state0
    /\ rounds = 1 /\ epc = "failed" /\ cret = 211

\* C13: a feature is negotiated only in a state where it is eligible: bind
\* with Authn set and Ready clear, register and recovery with Secure set and
\* Authn clear; the code of a feature runs only while the engine negotiates
\* it, and with Ready set bind is not negotiated
C13_NegotiatedOnlyWhileEligible ==
    /\ (epc = "negotiating" /\ selected = "bind")
          => ("Authn" \in state /\ "Ready" \notin state)
    /\ (epc = "negotiating" /\ selected \in {"register", "recovery"})
          => ("Secure" \in state /\ "Authn" \notin state)
    /\ (cpc \in {"request", "read", "decode", "check"}
          \/ spc \in {"read", "decode", "alloc", "respond"})
          => (epc = "negotiating" /\ selected = "bind")
    /\ ipc \in {"idle", "advertised"}
          => (epc = "negotiating" /\ selected = feature)
    /\ "Ready" \in state => epc \in {"select", "success"}

C13_Witness ==
    /\ "Received" \notin state /\ "Ready" \in state /\ "Ready" \notin state0
    /\ selected = "bind" /\ cret = 219 /\ epc = "success"

\* C14: every step leaves the bits of the session state set, and the
\* Received bit is what it was when the connection started
C14_StateOnlyGainsBits ==
    [][/\ state \subseteq state'
       /\ ("Received" \in state') <=> ("Received" \in state0)]_vars

C14_Witness ==
    /\ "Authn" \in state0 /\ "Ready" \notin state0
    /\ state = state0 \cup Ready
    /\ epc = "success"

-----------------------------------------------------------------------------
(* internal.RandomID: bind.go:235-245 *)

\* the bytes the entropy source is taken to yield
ByteValues == {0, 9, 10, 160, 175, 255}

HexDigits ==
    <<"0", "1", "2", "3", "4", "5", "6", "7", "8", "9",
      "a", "b", "c", "d", "e", "f">>

\* fmt.Sprintf("%x", b) of a byte slice: two lowercase digits a byte
RECURSIVE Hex(_)
Hex(b) ==
    IF b = <<>> THEN <<>>
    ELSE <<HexDigits[(Head(b) \div 16) + 1], HexDigits[(Head(b) % 16) + 1]>>
         \o Hex(Tail(b))

\* the byte slices of length k
RECURSIVE ByteSeqs(_)
ByteSeqs(k) ==
    IF k = 0 THEN {<<>>}
    ELSE { <<x>> \o t : x \in ByteValues, t \in ByteSeqs(k - 1) }

\* half the length, rounded down
NumBytesHalf(n) == n \div 2

\* (n/2)+(n&1) (bind.go:239)
NumBytes(n) == (n \div 2) + (n % 2)

\* RandomID (bind.go:238-245) given what rand.Read did: a failed read
\* panics, and so does a slice beyond the length of the string
RandomID(n, ent) ==
    IF ~ent.ok THEN [out |-> "panic", id |-> <<>>]
    ELSE LET h == Hex(ent.b) IN
         IF n > Len(h) THEN [out |-> "panic", id |-> <<>>]
         ELSE [out |-> "return", id |-> SubSeq(h, 1, n)]

InitRandomID ==
    /\ scenario = "random" /\ server = "nil"
    /\ c2s = <<>> /\ s2c = <<>>
    /\ c2sClosed = FALSE /\ s2cClosed = FALSE
    /\ peerSent = 0
    /\ cpc = "absent"
    /\ origin = JID(Bare, "") /\ origin0 = origin
    /\ reqID = "" /\ cstart = NoTok /\ resp = ZeroIQ
    /\ cmask = NoMask /\ cerr = NoErr /\ cret = 0
    /\ cin = <<>> /\ cwrites = <<>> /\ creads = 0
    /\ spc = "absent"
    /\ sstart = NoTok /\ resReq = ZeroIQ /\ iqid = "" /\ sj = NilJID
    /\ salloc = NoErr
    /\ smask = NoMask /\ serr = NoErr /\ sret = 0
    /\ srw = "nil" /\ sorigin = JID("example.com", "") /\ sreads = 0
    /\ sin = <<>> /\ swrites = <<>> /\ swire = <<>>
    /\ feature = "" /\ irole = ""
    /\ challenges = <<>> /\ peerList = <<>> /\ advert = <<>>
    /\ ipc = "off"
    /\ listOut = <<>> /\ listErr = NoErr
    /\ supported = FALSE /\ parseErr = NoErr
    /\ IdleNegotiate /\ IdleEngine
    /\ rn \in 0..MaxIDLen
    /\ rentropy = [ok |-> TRUE, b |-> <<>>]
    /\ rpc = "idle"
    /\ rid = <<>>

\* rand.Read(b) fills the slice or fails (bind.go:240)
RandRead ==
    /\ rpc = "idle"
    /\ \/ \E b \in ByteSeqs(NumBytes(rn)) : rentropy' = [ok |-> TRUE, b |-> b]
       \/ rentropy' = [ok |-> FALSE, b |-> <<>>]
    /\ rpc' = "read"
    /\ UNCHANGED <<rn, rid>>
    /\ UNCHANGED <<bvars, cvars, svars, ivars, nvars, evars>>

\* the rest of RandomID: the panic or the returned string (bind.go:240-244)
RandReturn ==
    /\ rpc = "read"
    /\ LET r == RandomID(rn, rentropy) IN
         /\ rpc' = IF r.out = "panic" THEN "panic" ELSE "done"
         /\ rid' = r.id
    /\ UNCHANGED <<rn, rentropy>>
    /\ UNCHANGED <<bvars, cvars, svars, ivars, nvars, evars>>

NextRandomID ==
    \/ RandRead
    \/ RandReturn

SpecRandomID == InitRandomID /\ [][NextRandomID]_vars

\* C17: for every n >= 0 RandomID returns a string of exactly n characters,
\* each a lowercase hexadecimal digit, the leading digits of the bytes read,
\* and it panics exactly when the entropy source fails
C17_RandomIDLengthAndAlphabet ==
    /\ rpc = "done" =>
          /\ rentropy.ok
          /\ Len(rid) = rn
          /\ \A i \in 1..Len(rid) :
                rid[i] \in {"0", "1", "2", "3", "4", "5", "6", "7", "8", "9",
                            "a", "b", "c", "d", "e", "f"}
          /\ \A i \in 1..Len(rid) :
                LET x == rentropy.b[(i + 1) \div 2] IN
                rid[i] = IF i % 2 = 1 THEN HexDigits[(x \div 16) + 1]
                                      ELSE HexDigits[(x % 16) + 1]
    /\ rpc = "panic" => ~rentropy.ok
    /\ rpc \in {"done", "panic"} => (rentropy.ok <=> rpc = "done")

C17_Witness ==
    /\ rpc = "done" /\ rn = 3
    /\ rentropy.b = <<175, 9>>
    /\ rid = <<"a", "f", "0">>

====
